---- MODULE Spec2Model ----
(***************************************************************************)
(* A model of src/src/serena/mcp.py: the process-wide agent registry       *)
(* (_SERENA_AGENT_REGISTRY, _get_create_serena_agent), the capability      *)
(* descriptor builder (make_tool and its thunk execute_fn), and the entry  *)
(* point (create_mcp_server, server_lifespan, start_mcp_server).           *)
(***************************************************************************)
EXTENDS Naturals, Sequences, FiniteSets

\* ------------------------------------------------------------------ bounds
NumPaths == 2      \* distinct project file paths
NumCallers == 2    \* callers of _get_create_serena_agent besides the entry point
MaxAgents == 3     \* SerenaAgent objects constructed in one run
MaxArgs == 2       \* longest sys.argv[1:]
MaxTools == 2      \* most capabilities in agent.tools
NumNames == 2      \* distinct capability names
MaxRuns == 2       \* times start_mcp_server is run in one process

Paths == 1..NumPaths
Main == NumCallers + 1             \* the entry point, as the caller of line 92
Callers == 1..(NumCallers + 1)
Others == 1..NumCallers            \* the other callers of _get_create_serena_agent
Handles == 1..MaxAgents            \* identities of constructed SerenaAgent objects
NoAgent == 0                       \* no agent: not the identity of any SerenaAgent
Names == 1..NumNames
NoDesc == [kind |-> "none"]

\* How a capability's "apply" attribute looks to getattr / func_metadata.
ApplyKinds == {"callable", "none", "absent", "noncallable"}

RECURSIVE SeqsUpTo(_, _)
SeqsUpTo(S, n) ==
    IF n = 0 THEN {<<>>}
    ELSE LET shorter == SeqsUpTo(S, n - 1)
         IN  shorter \cup {Append(s, x) : s \in {t \in shorter : Len(t) = n - 1}, x \in S}

\* Counting "none, one, two or more".
CountUp(n) == IF n < 2 THEN n + 1 ELSE n

VARIABLES
    pc,          \* where the entry point (start_mcp_server) is
    argv,        \* sys.argv[1:]
    registry,    \* _SERENA_AGENT_REGISTRY: entries <<path, agent>> in insertion order
    agentPath,   \* agentPath[h]: the path SerenaAgent h was constructed with
    lsStarts,    \* lsStarts[h]: times h's language server was started
    lsStops,     \* lsStops[h]: times h.language_server.stop() was invoked
    lsState,     \* lsState[h]: "running", "stopped" or "stop_failed"
    cpc,         \* cpc[c]: caller c's position inside _get_create_serena_agent
    cpath,       \* cpath[c]: the project_file_path of c's call in progress
    cnew,        \* cnew[c]: the agent c constructed at line 78, not yet stored
    returns,     \* returns[p]: the handles the completed calls for p returned
    completed,   \* completed[p]: the completed calls for p: 0, 1, or 2 for more
    agent,       \* create_mcp_server's local "agent" (line 92)
    tools,       \* what agent.tools.values() has yielded to the loop of line 105
    bindIdx,     \* the capability that loop is binding, Len(tools) + 1 if none
    mcp,         \* whether the FastMCP object of line 104 exists
    table,       \* mcp._tool_manager._tools: name -> descriptor
    lastCall,    \* how the last thunk invocation ended, "none" before the first
    absorbed,    \* whether a thunk has returned an error description so far
    exitReason,  \* why the run loop left the serving phase
    sweeps,      \* times the finally block of server_lifespan was entered
    err,         \* the exception that ended the entry point, "none" if none
    exitStatus   \* the exit status sys.exit gave, 0 if it was not called

vars == <<pc, argv, registry, agentPath, lsStarts, lsStops, lsState, cpc, cpath,
          cnew, returns, completed, agent, tools, bindIdx, mcp, table, lastCall,
          absorbed, exitReason, sweeps, err, exitStatus>>

regVars == <<registry, agentPath, lsStarts, lsStops, lsState>>
callVars == <<cpc, cpath, cnew, returns, completed>>
srvVars == <<tools, bindIdx, mcp, table, lastCall, absorbed, exitReason, sweeps, exitStatus>>

\* ---------------------------------------------------------------- registry
\* _SERENA_AGENT_REGISTRY is a dict: keys unique, iteration in insertion order.
Keys(reg) == {reg[i].path : i \in DOMAIN reg}

\* project_file_path not in _SERENA_AGENT_REGISTRY (line 76)
NotRegistered_Always(reg, p) == TRUE

NotRegistered(reg, p) == p \notin Keys(reg)

\* _SERENA_AGENT_REGISTRY[project_file_path] (line 81)
Lookup(reg, p) ==
    IF p \in Keys(reg)
    THEN reg[CHOOSE i \in DOMAIN reg : reg[i].path = p].agent
    ELSE NoAgent

\* _SERENA_AGENT_REGISTRY[project_file_path] = agent (line 78): a new key is
\* appended, an existing key keeps its place and gets the new value.
Store_Evicting(reg, p, h) ==
    IF p \in Keys(reg)
    THEN [i \in DOMAIN reg |-> IF reg[i].path = p THEN [path |-> p, agent |-> h] ELSE reg[i]]
    ELSE IF Len(reg) >= 1 THEN Append(Tail(reg), [path |-> p, agent |-> h])
         ELSE Append(reg, [path |-> p, agent |-> h])

Store(reg, p, h) ==
    IF p \in Keys(reg)
    THEN [i \in DOMAIN reg |-> IF reg[i].path = p THEN [path |-> p, agent |-> h] ELSE reg[i]]
    ELSE Append(reg, [path |-> p, agent |-> h])

\* _SERENA_AGENT_REGISTRY.values()
Values(reg) == [i \in DOMAIN reg |-> reg[i].agent]

Init ==
    /\ pc = "start"
    /\ argv \in SeqsUpTo(Paths, MaxArgs)
    /\ registry = <<>>
    /\ agentPath = <<>>
    /\ lsStarts = <<>>
    /\ lsStops = <<>>
    /\ lsState = <<>>
    /\ cpc = [c \in Callers |-> "idle"]
    /\ cpath = [c \in Callers |-> 1]
    /\ cnew = [c \in Callers |-> NoAgent]
    /\ returns = [p \in Paths |-> {}]
    /\ completed = [p \in Paths |-> 0]
    /\ agent = NoAgent
    /\ tools = <<>>
    /\ bindIdx = 1
    /\ mcp = FALSE
    /\ table = [n \in Names |-> NoDesc]
    /\ lastCall = "none"
    /\ absorbed = FALSE
    /\ exitReason = "none"
    /\ sweeps = 0
    /\ err = "none"
    /\ exitStatus = 0

\* --------------------------------------------- _get_create_serena_agent
\* A call is entered with its argument (line 75).
Enter(c, p) ==
    /\ cpc[c] = "idle"
    /\ cpc' = [cpc EXCEPT ![c] = "L76"]
    /\ cpath' = [cpath EXCEPT ![c] = p]
    /\ UNCHANGED <<cnew, returns, completed>>

\* Line 76: the membership test picks the branch.
Check(c) ==
    /\ cpc[c] = "L76"
    /\ cpc' = [cpc EXCEPT ![c] = IF NotRegistered(registry, cpath[c]) THEN "L78" ELSE "L81"]
    /\ UNCHANGED <<pc, argv, regVars, cpath, cnew, returns, completed, agent, srvVars, err>>

\* Line 78, right-hand side: SerenaAgent(path, start_language_server=True)
\* builds a new agent and starts its language server.
Construct_NotStarted(c) ==
    /\ cpc[c] = "L78"
    /\ Len(agentPath) + 1 \in Handles
    /\ agentPath' = Append(agentPath, cpath[c])
    /\ lsStarts' = Append(lsStarts, 0)
    /\ lsStops' = Append(lsStops, 0)
    /\ lsState' = Append(lsState, "not started")
    /\ cnew' = [cnew EXCEPT ![c] = Len(agentPath) + 1]
    /\ cpc' = [cpc EXCEPT ![c] = "L78s"]
    /\ UNCHANGED <<pc, argv, registry, cpath, returns, completed, agent, srvVars, err>>

Construct(c) ==
    /\ cpc[c] = "L78"
    /\ Len(agentPath) + 1 \in Handles
    /\ agentPath' = Append(agentPath, cpath[c])
    /\ lsStarts' = Append(lsStarts, 1)
    /\ lsStops' = Append(lsStops, 0)
    /\ lsState' = Append(lsState, "running")
    /\ cnew' = [cnew EXCEPT ![c] = Len(agentPath) + 1]
    /\ cpc' = [cpc EXCEPT ![c] = "L78s"]
    /\ UNCHANGED <<pc, argv, registry, cpath, returns, completed, agent, srvVars, err>>

\* Line 78, right-hand side, when SerenaAgent raises: nothing is stored and
\* the exception leaves _get_create_serena_agent.
ConstructFails_StoresNone(c) ==
    /\ cpc[c] = "L78"
    /\ cpc' = [cpc EXCEPT ![c] = "idle"]
    /\ cpath' = [cpath EXCEPT ![c] = 1]
    /\ registry' = [i \in 1..(Len(registry) + 1) |->
                       IF i <= Len(registry) THEN registry[i]
                       ELSE [path |-> cpath[c], agent |-> NoAgent]]
    /\ IF c = Main
       THEN pc' = "failed" /\ err' = "AgentError"
       ELSE UNCHANGED <<pc, err>>
    /\ UNCHANGED <<argv, agentPath, lsStarts, lsStops, lsState, cnew, returns, completed,
                   agent, srvVars>>

ConstructFails(c) ==
    /\ cpc[c] = "L78"
    /\ cpc' = [cpc EXCEPT ![c] = "idle"]
    /\ cpath' = [cpath EXCEPT ![c] = 1]
    /\ IF c = Main
       THEN pc' = "failed" /\ err' = "AgentError"
       ELSE UNCHANGED <<pc, err>>
    /\ UNCHANGED <<argv, regVars, cnew, returns, completed, agent, srvVars>>

\* Line 78, the assignment into the registry.
Insert_AndBind(c) ==
    /\ cpc[c] = "L78s"
    /\ registry' = Store(registry, cpath[c], cnew[c])
    /\ cnew' = [cnew EXCEPT ![c] = NoAgent]
    /\ cpc' = [cpc EXCEPT ![c] = "L81"]
    /\ table' = [n \in Names |->
                    IF mcp
                    THEN [kind |-> "descriptor", name |-> n, tool |-> 1, is_async |-> FALSE]
                    ELSE table[n]]
    /\ UNCHANGED <<pc, argv, agentPath, lsStarts, lsStops, lsState, cpath, returns,
                   completed, agent, tools, bindIdx, mcp, lastCall, absorbed, exitReason,
                   sweeps, exitStatus, err>>

Insert(c) ==
    /\ cpc[c] = "L78s"
    /\ registry' = Store(registry, cpath[c], cnew[c])
    /\ cnew' = [cnew EXCEPT ![c] = NoAgent]
    /\ cpc' = [cpc EXCEPT ![c] = "L81"]
    /\ UNCHANGED <<pc, argv, agentPath, lsStarts, lsStops, lsState, cpath, returns,
                   completed, agent, srvVars, err>>

\* Line 81: return _SERENA_AGENT_REGISTRY[project_file_path]. The entry point
\* keeps the handle in "agent" (line 92) and goes on to create the server
\* (lines 103-104).
Return(c) ==
    /\ cpc[c] = "L81"
    /\ cpc' = [cpc EXCEPT ![c] = "idle"]
    /\ cpath' = [cpath EXCEPT ![c] = 1]
    /\ returns' = [returns EXCEPT ![cpath[c]] = @ \cup {Lookup(registry, cpath[c])}]
    /\ completed' = [completed EXCEPT ![cpath[c]] = CountUp(@)]
    /\ IF c = Main
       THEN /\ agent' = Lookup(registry, cpath[c])
            /\ pc' = "bind"
            /\ mcp' = TRUE
            /\ UNCHANGED <<tools, bindIdx, table, lastCall, absorbed, exitReason, sweeps,
                           exitStatus>>
       ELSE UNCHANGED <<pc, agent, srvVars>>
    /\ UNCHANGED <<argv, regVars, cnew, err>>

\* One step of a call in progress.
CallStep(c) ==
    \/ Check(c)
    \/ Construct(c)
    \/ ConstructFails(c)
    \/ Insert(c)
    \/ Return(c)

\* A caller other than the entry point enters a call. The process is single
\* threaded: such a call runs before the entry point is entered, inside the
\* serving phase, or after the run loop has returned, and only when no other
\* call is in progress.
EnterSeq(c, p) ==
    /\ c \in Others
    /\ pc \in {"start", "serving", "stopped"}
    /\ \A d \in Callers : cpc[d] = "idle"
    /\ Enter(c, p)
    /\ UNCHANGED <<pc, argv, regVars, agent, srvVars, err>>

\* ------------------------------------------------------------- make_tool
\* tool.apply_ex(log_call, catch_exceptions, **kwargs) of serena.agent.Tool:
\* with catch_exceptions an exception of the capability's execution becomes
\* the returned string, without it the exception is raised again.
apply_ex(log_call, catch_exceptions, exec) ==
    IF exec = "ok" THEN [kind |-> "return", value |-> "payload"]
    ELSE IF catch_exceptions THEN [kind |-> "return", value |-> "error description"]
    ELSE [kind |-> "raise", value |-> "Exception"]

\* execute_fn (lines 57-58): the thunk of a descriptor.
execute_fn_NoCatch(exec) == apply_ex(TRUE, FALSE, exec)

execute_fn(exec) == apply_ex(TRUE, TRUE, exec)

\* make_tool (lines 41-68): the descriptor of a capability or the exception
\* raised instead. getattr without a default raises AttributeError on a
\* missing attribute (line 47); None is rejected at lines 48-49; func_metadata
\* (line 54) takes the signature of apply_fn and raises TypeError when it is
\* not callable.
make_tool_FixedName(tool) ==
    IF tool.apply = "absent" THEN [kind |-> "raise", error |-> "AttributeError"]
    ELSE IF tool.apply = "none" THEN [kind |-> "raise", error |-> "ValueError"]
    ELSE IF tool.apply = "noncallable" THEN [kind |-> "raise", error |-> "TypeError"]
    ELSE [kind |-> "descriptor", name |-> 1, tool |-> tool.id, is_async |-> FALSE]

make_tool(tool) ==
    IF tool.apply = "absent" THEN [kind |-> "raise", error |-> "AttributeError"]
    ELSE IF tool.apply = "none" THEN [kind |-> "raise", error |-> "ValueError"]
    ELSE IF tool.apply = "noncallable" THEN [kind |-> "raise", error |-> "TypeError"]
    ELSE [kind |-> "descriptor", name |-> tool.name, tool |-> tool.id, is_async |-> FALSE]

\* ------------------------------------------------------ create_mcp_server
\* len(argv) != 1 (line 86)
UsageError_OnlyEmpty(args) == Len(args) = 0

UsageError(args) == Len(args) # 1

\* Lines 86-88: the usage message and sys.exit(1).
EntryUsage ==
    /\ pc = "start"
    /\ \A c \in Callers : cpc[c] = "idle"
    /\ UsageError(argv)
    /\ pc' = "exited"
    /\ err' = "SystemExit"
    /\ exitStatus' = 1
    /\ UNCHANGED <<argv, regVars, callVars, agent, tools, bindIdx, mcp, table, lastCall,
                   absorbed, exitReason, sweeps>>

\* Lines 90-92: project_file_path = argv[0] and the call of
\* _get_create_serena_agent.
EntryResolve ==
    /\ pc = "start"
    /\ \A c \in Callers : cpc[c] = "idle"
    /\ ~UsageError(argv)
    /\ pc' = "resolve"
    /\ Enter(Main, argv[1])
    /\ UNCHANGED <<argv, regVars, agent, srvVars, err>>

\* Line 105: agent.tools.values() yields its next capability, the one at
\* position bindIdx.
NextTool(name, apply) ==
    /\ pc = "bind"
    /\ bindIdx = Len(tools) + 1
    /\ Len(tools) < MaxTools
    /\ tools' = Append(tools, [id |-> bindIdx, name |-> name, apply |-> apply])
    /\ UNCHANGED <<pc, argv, regVars, callVars, agent, bindIdx, mcp, table, lastCall,
                   absorbed, exitReason, sweeps, err, exitStatus>>

\* mcp._tool_manager._tools[key] = descriptor (line 106): a plain dict store,
\* which replaces what the key held.
Bind_KeepFirst(tbl, key, desc) ==
    IF tbl[key] # NoDesc THEN tbl ELSE [tbl EXCEPT ![key] = desc]

Bind(tbl, key, desc) == [tbl EXCEPT ![key] = desc]

\* Line 106: the descriptor is stored under tool.get_name(); an exception of
\* make_tool leaves create_mcp_server.
BindTool ==
    /\ pc = "bind"
    /\ bindIdx <= Len(tools)
    /\ LET tool == tools[bindIdx]
           made == make_tool(tool)
       IN  IF made.kind = "raise"
           THEN /\ pc' = "failed"
                /\ err' = made.error
                /\ UNCHANGED <<table, bindIdx>>
           ELSE /\ table' = Bind(table, tool.name, made)
                /\ bindIdx' = bindIdx + 1
                /\ UNCHANGED <<pc, err>>
    /\ UNCHANGED <<argv, regVars, callVars, agent, tools, mcp, lastCall, absorbed,
                   exitReason, sweeps, exitStatus>>

\* Line 107: agent.tools.values() is exhausted and create_mcp_server returns
\* the server.
BindDone_Early ==
    /\ pc = "bind"
    /\ pc' = "created"
    /\ UNCHANGED <<argv, regVars, callVars, agent, srvVars, err>>

BindDone ==
    /\ pc = "bind"
    /\ bindIdx > Len(tools)
    /\ pc' = "created"
    /\ UNCHANGED <<argv, regVars, callVars, agent, srvVars, err>>

\* Line 111: run() enters server_lifespan, which yields (line 98).
Run ==
    /\ pc = "created"
    /\ pc' = "serving"
    /\ UNCHANGED <<argv, regVars, callVars, agent, srvVars, err>>

\* The run loop serves one invocation of the procedure bound under name n;
\* exec is what the capability's execution does.
Invoke(n, exec) ==
    /\ pc = "serving"
    /\ \A c \in Callers : cpc[c] = "idle"
    /\ table[n] # NoDesc
    /\ LET out == execute_fn(exec)
       IN  /\ lastCall' = (IF out.kind = "raise" THEN "raised" ELSE out.value)
           /\ absorbed' = (absorbed \/ (out.kind = "return" /\ out.value = "error description"))
    /\ UNCHANGED <<pc, argv, regVars, callVars, agent, tools, bindIdx, mcp, table,
                   exitReason, sweeps, err, exitStatus>>

\* server_lifespan (lines 94-101): try / yield / finally. Whether the block
\* of lines 100-101 runs when the serving phase ends for the given reason.
SweepsOn_NormalOnly(reason) == reason = "normal"

SweepsOn(reason) == TRUE

ExitReasons == {"normal", "cancelled", "error"}

\* Where the entry point is once the lifespan is over: run() returns after a
\* normal stop, otherwise the exception goes on.
AfterRun(reason) == IF reason = "normal" THEN "stopped" ELSE "failed"

\* The run loop leaves the serving phase.
ServeExit(reason) ==
    /\ pc = "serving"
    /\ \A c \in Callers : cpc[c] = "idle"
    /\ exitReason' = reason
    /\ IF SweepsOn(reason)
       THEN pc' = "sweeping" /\ UNCHANGED err
       ELSE pc' = AfterRun(reason) /\ err' = (IF reason = "normal" THEN err ELSE reason)
    /\ UNCHANGED <<argv, regVars, callVars, agent, tools, bindIdx, mcp, table, lastCall,
                   absorbed, sweeps, exitStatus>>

\* Lines 100-101: the loop over _SERENA_AGENT_REGISTRY.values(). stop() is
\* invoked on the values in order; failAt is the position of the first stop()
\* that raises (0: none does), which ends the loop.
Swept(reg, failAt) == IF failAt = 0 THEN 1..Len(reg) ELSE 1..failAt

Sweep_Clearing(failAt) ==
    /\ pc = "sweeping"
    /\ failAt \in 0..Len(registry)
    /\ sweeps' = sweeps + 1
    /\ registry' = <<>>
    /\ LET vals == Values(registry)
           done == Swept(registry, failAt)
       IN  /\ lsStops' = [h \in DOMAIN lsStops |->
                            lsStops[h] + Cardinality({i \in done : vals[i] = h})]
           /\ lsState' = [h \in DOMAIN lsState |->
                            IF failAt # 0 /\ vals[failAt] = h THEN "stop_failed"
                            ELSE IF \E i \in done : vals[i] = h THEN "stopped"
                            ELSE lsState[h]]
    /\ IF failAt # 0
       THEN pc' = "failed" /\ err' = "StopError"
       ELSE pc' = AfterRun(exitReason) /\ err' = (IF exitReason = "normal" THEN err ELSE exitReason)
    /\ UNCHANGED <<argv, agentPath, lsStarts, callVars, agent, tools, bindIdx,
                   mcp, table, lastCall, absorbed, exitReason, exitStatus>>

Sweep(failAt) ==
    /\ pc = "sweeping"
    /\ failAt \in 0..Len(registry)
    /\ sweeps' = sweeps + 1
    /\ LET vals == Values(registry)
           done == Swept(registry, failAt)
       IN  /\ lsStops' = [h \in DOMAIN lsStops |->
                            lsStops[h] + Cardinality({i \in done : vals[i] = h})]
           /\ lsState' = [h \in DOMAIN lsState |->
                            IF failAt # 0 /\ vals[failAt] = h THEN "stop_failed"
                            ELSE IF \E i \in done : vals[i] = h THEN "stopped"
                            ELSE lsState[h]]
    /\ IF failAt # 0
       THEN pc' = "failed" /\ err' = "StopError"
       ELSE pc' = AfterRun(exitReason) /\ err' = (IF exitReason = "normal" THEN err ELSE exitReason)
    /\ UNCHANGED <<argv, registry, agentPath, lsStarts, callVars, agent, tools, bindIdx,
                   mcp, table, lastCall, absorbed, exitReason, exitStatus>>

\* ---------------------------------------------------------- specifications
\* The one thread of the program, as the caller of the calls made outside
\* create_mcp_server.
Thread == CHOOSE c \in Others : TRUE

\* The program as it is scheduled: one thread, calls run one at a time.
Next ==
    \/ EntryUsage
    \/ EntryResolve
    \/ \E c \in Callers : CallStep(c)
    \/ \E p \in Paths : EnterSeq(Thread, p)
    \/ \E name \in Names, apply \in ApplyKinds : NextTool(name, apply)
    \/ BindTool
    \/ BindDone
    \/ Run
    \/ \E n \in Names, exec \in {"ok", "raises"} : Invoke(n, exec)
    \/ \E reason \in ExitReasons : ServeExit(reason)
    \/ \E failAt \in 0..MaxAgents : Sweep(failAt)

Spec == Init /\ [][Next]_vars

\* Callers that run _get_create_serena_agent concurrently (threads): their
\* steps interleave freely.
EnterRace(c, p) ==
    /\ c \in Others
    /\ Enter(c, p)
    /\ UNCHANGED <<pc, argv, regVars, agent, srvVars, err>>

NextRace ==
    \/ \E c \in Others, p \in Paths : EnterRace(c, p)
    \/ \E c \in Others : CallStep(c)

SpecRace == Init /\ [][NextRace]_vars

\* start_mcp_server is called again in the same process after it returned: a
\* new server with a new lifespan over the same process-wide registry.
Restart ==
    /\ pc = "stopped"
    /\ \A c \in Callers : cpc[c] = "idle"
    /\ sweeps < MaxRuns
    /\ pc' = "start"
    /\ agent' = NoAgent
    /\ tools' = <<>>
    /\ bindIdx' = 1
    /\ mcp' = FALSE
    /\ table' = [n \in Names |-> NoDesc]
    /\ lastCall' = "none"
    /\ absorbed' = FALSE
    /\ exitReason' = "none"
    /\ UNCHANGED <<argv, regVars, callVars, sweeps, err, exitStatus>>

NextRerun == Next \/ Restart

SpecRerun == Init /\ [][NextRerun]_vars

\* The caller of create_mcp_server has caught the exception SerenaAgent raised
\* at line 92 and calls _get_create_serena_agent again.
Retry(p) ==
    /\ pc = "failed"
    /\ err = "AgentError"
    /\ \A d \in Callers : cpc[d] = "idle"
    /\ Enter(Thread, p)
    /\ UNCHANGED <<pc, argv, regVars, agent, srvVars, err>>

NextRetry == Next \/ \E p \in Paths : Retry(p)

SpecRetry == Init /\ [][NextRetry]_vars

\* ------------------------------------------------------------- properties
\* The agents constructed for path p.
AgentsFor(p) == {h \in DOMAIN agentPath : agentPath[h] = p}

\* A call of _get_create_serena_agent is in progress for a path for which an
\* earlier call has already returned.
LaterCall(c) == cpc[c] # "idle" /\ completed[cpath[c]] >= 1

\* C1 (state part): in a sequential series of calls, each path has at most
\* one agent constructed for it, started once, and every completed call for
\* the path returned the handle the registry holds for it.
C1_OneHandlePerPath ==
    \A p \in Paths :
        /\ Cardinality(AgentsFor(p)) <= 1
        /\ \A h \in AgentsFor(p) : lsStarts[h] = 1
        /\ completed[p] >= 1 => returns[p] = {Lookup(registry, p)}
        /\ completed[p] >= 1 => Lookup(registry, p) \in AgentsFor(p)

\* C1 (step part): no step of a later call for a path constructs an agent,
\* starts a backend or changes the registry.
C1_LaterCallFrame ==
    (\E c \in Callers : LaterCall(c)) => UNCHANGED <<registry, agentPath, lsStarts>>

\* C1: sequential calls with the same path return the very same handle; only
\* the first constructs the agent and starts its backend, later ones leave
\* the registry unchanged.
C1_SequentialSameHandle == [](C1_OneHandlePerPath) /\ [][C1_LaterCallFrame]_vars

\* C1 witness: two calls for one path have completed.
C1_Witness == \E p \in Paths : completed[p] = 2 /\ returns[p] # {}

\* The finally block of server_lifespan ends in this step.
SweepEnds == pc = "sweeping" /\ pc' # "sweeping"

\* C2: at shutdown every agent in the registry has stop() invoked on its
\* backend exactly once, agents registered while serving included.
C2_EveryAgentStoppedOnce ==
    [][SweepEnds => \A i \in DOMAIN registry : lsStops'[registry[i].agent] = 1]_vars

\* C3: with concurrent callers, still at most one agent is constructed per
\* path and all callers for a path receive the same handle.
C3_AtMostOneUnderRace ==
    \A p \in Paths : Cardinality(AgentsFor(p)) <= 1 /\ Cardinality(returns[p]) <= 1

\* C4: a stop() that raises during the sweep does not keep stop() from being
\* invoked on every other agent of the registry.
C4_FailingStopIsolated ==
    [][(SweepEnds /\ err' = "StopError")
          => \A i \in DOMAIN registry : lsStops'[registry[i].agent] >= 1]_vars

\* C5: a thunk invocation never raises: it returns the payload or a string
\* describing the failure, and the server goes on serving.
C5_ThunkNeverRaises ==
    /\ lastCall \in {"none", "payload", "error description"}
    /\ (lastCall # "none" /\ exitReason = "none") => pc = "serving"

\* C5 witness: a failing execution was absorbed and a later invocation was
\* served while the server is still serving.
C5_Witness == absorbed /\ lastCall = "payload" /\ pc = "serving"

\* C6 (state part): with an argument count other than one, the entry point
\* never gets past the usage check: it resolves no agent and creates no
\* server or procedure table; it exits with status 1.
C6_NoStateOnUsageError ==
    /\ Len(argv) # 1 =>
          /\ pc \in {"start", "exited"}
          /\ cpc[Main] = "idle"
          /\ agent = NoAgent
          /\ ~mcp
          /\ \A n \in Names : table[n] = NoDesc
    /\ pc = "exited" => Len(argv) # 1 /\ exitStatus = 1 /\ err = "SystemExit"
    /\ (pc = "start" /\ cpc[Main] = "idle") => exitStatus = 0

\* C6 (step part): the exit constructs no agent and leaves the registry as
\* it was.
C6_ExitFrame == pc' = "exited" => UNCHANGED <<registry, agentPath, lsStarts>>

\* C6: an argument count other than one ends in a usage error with a
\* non-zero status before any agent or server state is created.
C6_UsageErrorCreatesNothing == [](C6_NoStateOnUsageError) /\ [][C6_ExitFrame]_vars

\* C6 witness: the exit was taken with two arguments.
C6_Witness == pc = "exited" /\ Len(argv) = 2 /\ exitStatus = 1

\* C7: whatever the reason the serving phase ends for, the sweep over the
\* registry runs: stop() is invoked on the registered agents' backends.
C7_SweepOnEveryExit ==
    exitReason # "none" =>
        \/ pc = "sweeping" /\ sweeps = 0
        \/ /\ sweeps = 1
           /\ registry # <<>>
           /\ lsStops[registry[1].agent] >= 1

\* C7 witness: the serving phase ended by an error and the sweep ran.
C7_Witness == exitReason = "error" /\ sweeps = 1 /\ pc = "failed"

\* create_mcp_server has returned the server.
CreateReturned ==
    \/ pc \in {"created", "serving", "sweeping", "stopped"}
    \/ pc = "failed" /\ exitReason # "none"

\* The last capability of agent.tools that reports name n.
LastNamed(n) == CHOOSE i \in DOMAIN tools :
                    tools[i].name = n /\ \A j \in DOMAIN tools : tools[j].name = n => j <= i

\* C8 as stated: the table holds the descriptor of every capability under
\* the capability's name, and each descriptor's name is its key.
C8_OneDescriptorPerCapability ==
    CreateReturned =>
        /\ \A i \in DOMAIN tools :
              table[tools[i].name] # NoDesc /\ table[tools[i].name].tool = i
        /\ \A n \in Names : table[n] # NoDesc => table[n].name = n

\* C8 as amended: the table holds, under the name of every capability, the
\* descriptor of the last capability reporting that name, nothing else, and
\* each descriptor's name is its key.
C8_OneDescriptorPerName ==
    CreateReturned =>
        /\ \A i \in DOMAIN tools :
              /\ table[tools[i].name] # NoDesc
              /\ table[tools[i].name].tool = LastNamed(tools[i].name)
        /\ \A n \in Names :
              table[n] # NoDesc => table[n].name = n /\ \E i \in DOMAIN tools : tools[i].name = n

\* C8 witness: the server was returned for an agent with two capabilities
\* of the same name.
C8_Witness ==
    CreateReturned /\ Len(tools) >= 2 /\ tools[1].name = tools[2].name

\* create_mcp_server was left by an exception of make_tool.
BindFailed == pc = "failed" /\ mcp /\ exitReason = "none"

\* C9: whenever the capability has no usable apply, make_tool fails with the
\* ValueError and produces no descriptor.
C9_ValueErrorWhenNoApply ==
    /\ BindFailed => err = "ValueError"
    /\ \A n \in Names : table[n] # NoDesc => tools[table[n].tool].apply = "callable"

\* C10: outside the shutdown sweep every entry of the registry stays where it
\* is with the handle it has; the registry only grows.
C10_RegistryOnlyGrows ==
    [][sweeps' = sweeps =>
          /\ Len(registry') >= Len(registry)
          /\ \A i \in DOMAIN registry : registry'[i] = registry[i]]_vars

\* C10 witness: while serving, every path is registered and a path has been
\* looked up again.
C10_Witness ==
    /\ pc = "serving"
    /\ Len(registry) = NumPaths
    /\ \E p \in Paths : completed[p] = 2

\* C11 (state part): distinct registered paths hold distinct handles, each
\* an agent of its own constructed for that path with its backend started,
\* and every call for a path returned the handle registered for it.
C11_DistinctHandles ==
    \A p \in Paths, q \in Paths :
        (p # q /\ p \in Keys(registry) /\ q \in Keys(registry)) =>
            /\ Lookup(registry, p) # Lookup(registry, q)
            /\ agentPath[Lookup(registry, p)] = p
            /\ lsStarts[Lookup(registry, p)] = 1
            /\ returns[p] \subseteq {Lookup(registry, p)}

\* C11 (step part): after create(a), create(b), create(a) the shutdown
\* invokes stop() on the handles of both paths.
C11_ShutdownStopsBoth ==
    \A p \in Paths, q \in Paths :
        (SweepEnds /\ p # q /\ completed[p] = 2 /\ completed[q] >= 1) =>
            /\ lsStops'[Lookup(registry, p)] >= 1
            /\ lsStops'[Lookup(registry, q)] >= 1

\* C11: two distinct paths get two distinct handles with a backend each, the
\* repeated create(a) returns the first handle, and the shutdown that
\* follows stops the backends of both.
C11_TwoPathsTwoHandles == [](C11_DistinctHandles) /\ [][C11_ShutdownStopsBoth]_vars

\* The capabilities bound so far that report name n.
BoundNamed(n) == {i \in DOMAIN tools : i < bindIdx /\ tools[i].name = n}

\* C12: the table has one entry per name and binding is last-write-wins: at
\* every point of the binding loop the entry under a name is the descriptor
\* of the latest capability bound under it, so an earlier capability of the
\* same name is no longer reachable through the table.
C12_LastWriteWins ==
    \A n \in Names :
        IF BoundNamed(n) = {}
        THEN table[n] = NoDesc
        ELSE /\ table[n].kind = "descriptor"
             /\ table[n].tool \in BoundNamed(n)
             /\ \A i \in BoundNamed(n) : i <= table[n].tool

\* C12 witness: two capabilities of one name were bound and the entry is the
\* second one's descriptor.
C12_Witness ==
    /\ Len(tools) >= 2
    /\ bindIdx > 2
    /\ tools[1].name = tools[2].name
    /\ table[tools[1].name].tool = 2

\* Every capability agent.tools.values() yielded has its descriptor bound.
AllBound == bindIdx = Len(tools) + 1 /\ \A i \in DOMAIN tools : table[tools[i].name] # NoDesc

\* C13: on a successful start the agent is resolved before anything is
\* bound, every capability is bound before the run loop starts, no
\* invocation is served before that, and start_mcp_server returns only after
\* the server has stopped.
C13_StartOrder ==
    /\ (mcp \/ tools # <<>> \/ bindIdx > 1) =>
          agent # NoAgent /\ agent = Lookup(registry, argv[1]) /\ cpc[Main] = "idle"
    /\ pc \in {"created", "serving"} => AllBound /\ exitReason = "none" /\ sweeps = 0
    /\ lastCall # "none" => AllBound /\ pc \in {"serving", "sweeping", "stopped", "failed"}
    /\ pc \in {"start", "resolve", "bind", "created"} => lastCall = "none" /\ exitReason = "none"
    /\ pc = "stopped" => AllBound /\ exitReason = "normal" /\ sweeps >= 1

\* C13 witness: start_mcp_server has returned after a run that bound two
\* capabilities and served an invocation.
C13_Witness == pc = "stopped" /\ Len(tools) >= 2 /\ lastCall # "none"

\* C14 (sweep part): the sweep removes nothing from the registry, and it
\* invokes stop() once more on every agent it reaches, already stopped or
\* not; it fails to reach an agent only behind a stop() that raised.
C14_SweepKeepsRegistry ==
    pc = "sweeping" =>
        /\ registry' = registry
        /\ \A i \in DOMAIN registry :
              \/ lsStops'[registry[i].agent] = lsStops[registry[i].agent] + 1
              \/ /\ err' = "StopError"
                 /\ \E j \in DOMAIN registry : j < i /\ lsState'[registry[j].agent] = "stop_failed"

\* C14 (call part): once a shutdown has run, a call for a registered path
\* constructs nothing, changes no backend and leaves the registry as it is;
\* no step ever starts a backend again.
C14_LaterCallReuses ==
    /\ (sweeps >= 1 /\ \E c \in Callers : cpc[c] # "idle" /\ cpath[c] \in Keys(registry))
          => UNCHANGED <<registry, agentPath, lsStarts, lsStops, lsState>>
    /\ \A h \in DOMAIN lsState :
          lsStarts'[h] = lsStarts[h] /\ (lsState[h] # "running" => lsState'[h] # "running")

\* C14 (state part): every completed call for a path returned the handle
\* registered for it, and an agent is stopped only by a sweep.
C14_ReturnsRegistered ==
    /\ \A p \in Paths : completed[p] >= 1 => returns[p] = {Lookup(registry, p)}
    /\ \A h \in DOMAIN lsStops : lsStops[h] <= sweeps /\ (lsState[h] = "running" <=> lsStops[h] = 0)

\* C14: the shutdown sweep stops backends without removing entries, so a
\* later call for a registered path returns the stopped agent without
\* constructing or restarting anything, and a second shutdown invokes stop()
\* on the same agents again.
C14_SweepRemovesNothing ==
    /\ [](C14_ReturnsRegistered)
    /\ [][C14_SweepKeepsRegistry /\ C14_LaterCallReuses]_vars

\* C14 witness: after a second shutdown a call for a registered path is
\* about to return an agent that stop() was invoked on twice.
C14_Witness ==
    /\ sweeps = 2
    /\ pc = "stopped"
    /\ \E c \in Others :
          /\ cpc[c] = "L81"
          /\ cpath[c] \in Keys(registry)
          /\ lsStops[Lookup(registry, cpath[c])] = 2
          /\ lsState[Lookup(registry, cpath[c])] = "stopped"

\* C15 (failure step): when SerenaAgent raises, the call ends without a
\* return, the registry and the agents are as they were, the path has no
\* entry, and in create_mcp_server the exception ends the entry point before
\* any agent is resolved.
C15_FailureLeavesNoEntry ==
    \A c \in Callers :
        (cpc[c] = "L78" /\ cpc'[c] = "idle") =>
            /\ UNCHANGED <<registry, agentPath, lsStarts, returns, completed>>
            /\ cpath[c] \notin Keys(registry')
            /\ c = Main => pc' = "failed" /\ err' = "AgentError" /\ agent' = NoAgent /\ ~mcp'

\* C15 (retry step): a call that finds no entry for its path goes on to
\* construct, whatever happened to earlier calls for that path.
C15_AbsentPathConstructs ==
    \A c \in Callers :
        (cpc[c] = "L76" /\ cpc'[c] # "L76" /\ cpath[c] \notin Keys(registry)) => cpc'[c] = "L78"

\* C15 (state part): the registry never holds a partial or missing handle:
\* every entry is a fully constructed agent of its path, and no call has
\* returned anything else.
C15_NoPartialHandle ==
    /\ \A i \in DOMAIN registry :
          registry[i].agent \in DOMAIN agentPath /\ agentPath[registry[i].agent] = registry[i].path
    /\ \A p \in Paths : NoAgent \notin returns[p]

\* C15: a failing SerenaAgent construction propagates to the caller and
\* leaves the registry as it was, with no entry for the path; a later call
\* for the path attempts the construction again.
C15_FailedConstructionRetried ==
    /\ [](C15_NoPartialHandle)
    /\ [][C15_FailureLeavesNoEntry /\ C15_AbsentPathConstructs]_vars

\* C15 witness: the construction at line 92 failed, and a later call for the
\* same path has constructed an agent anew.
C15_Witness ==
    /\ pc = "failed"
    /\ err = "AgentError"
    /\ cpc[Thread] = "L78s"
    /\ cpath[Thread] = argv[1]
    /\ argv[1] \notin Keys(registry)

\* A thunk invocation ends in this step.
Invoked == pc = "serving" /\ (lastCall' # lastCall \/ absorbed' # absorbed)

\* C16 (step part): once create_mcp_server has returned, no step changes the
\* procedure table or the capabilities it was built from, whatever it does
\* to the registry, and a thunk invocation changes neither the table nor the
\* registry nor any agent.
C16_TableFrame ==
    /\ CreateReturned => UNCHANGED <<table, tools, bindIdx, agent>>
    /\ Invoked => UNCHANGED <<table, registry, agentPath, lsStarts, lsStops, lsState>>

\* C16 (state part): the table holds descriptors of capabilities of the
\* initially resolved agent only.
C16_OnlyInitialAgent ==
    \A n \in Names :
        table[n] # NoDesc =>
            /\ agent # NoAgent
            /\ table[n].tool \in DOMAIN tools
            /\ tools[table[n].tool].name = n

\* C16: the procedure table is fixed once create_mcp_server has returned:
\* agents registered later add nothing to it and invoking a thunk changes
\* neither the table nor the registry.
C16_TableFixedAfterCreate == [](C16_OnlyInitialAgent) /\ [][C16_TableFrame]_vars

\* C16 witness: while serving, with a procedure bound and an invocation
\* served, a call has just registered a new agent for another path.
C16_Witness ==
    /\ pc = "serving"
    /\ lastCall # "none"
    /\ \E n \in Names : table[n] # NoDesc
    /\ \E c \in Others :
          /\ cpc[c] = "L81"
          /\ completed[cpath[c]] = 0
          /\ cpath[c] \in Keys(registry)
          /\ Lookup(registry, cpath[c]) # agent

\* C17 (state part): the agent's backend is started before the server
\* exists, no stop() is invoked before a sweep, and after a failure at bind
\* time the agent is still registered with its backend running and never
\* stopped.
C17_BackendLeftRunning ==
    /\ mcp => agent \in DOMAIN lsStarts /\ lsStarts[agent] = 1
    /\ sweeps = 0 => \A h \in DOMAIN lsStops : lsStops[h] = 0 /\ lsState[h] = "running"
    /\ BindFailed =>
          /\ err \in {"ValueError", "AttributeError", "TypeError"}
          /\ sweeps = 0
          /\ Lookup(registry, argv[1]) = agent
          /\ lsState[agent] = "running"
          /\ lsStops[agent] = 0

\* C17 (step part): stop() is invoked only by a step of the sweep, and once
\* the entry point has failed at bind time nothing stops or unregisters an
\* agent any more.
C17_OnlySweepStops ==
    /\ \A h \in DOMAIN lsStops : lsStops'[h] # lsStops[h] => pc = "sweeping"
    /\ BindFailed => UNCHANGED <<pc, registry, lsStops, lsState, sweeps>>

\* C17: only the shutdown sweep invokes stop(); an entry point that fails at
\* bind time, after the agent was created and before any lifespan exists,
\* leaves the agent in the registry with its backend running.
C17_BindFailureLeaksBackend == [](C17_BackendLeftRunning) /\ [][C17_OnlySweepStops]_vars

\* C17 witness: make_tool raised at bind time and the resolved agent is
\* registered with its backend running.
C17_Witness ==
    /\ BindFailed
    /\ err = "ValueError"
    /\ Lookup(registry, argv[1]) = agent
    /\ lsState[agent] = "running"

====
